---- MODULE Spec2Model ----
(***************************************************************************)
(* Restaurant ordering backend (src/app.py, src/models.py): the relational *)
(* store, the HTTP handlers that read and write it, and the two pure       *)
(* helpers (price parser, staff display).                                  *)
(*                                                                         *)
(* Money is kept in thousandths of a MAD (80.0 MAD = 80000), so that the   *)
(* two-decimal rounding of the reports is visible.  A string is a sequence *)
(* of one-character strings.                                               *)
(***************************************************************************)
EXTENDS Integers, Sequences, FiniteSets, TLC

VARIABLES
    backend,      \* the store behind DATABASE_URL: "sqlite" or "postgresql"
    restaurants,  \* rows of table restaurant
    categories,   \* rows of table category
    dishes,       \* rows of table dish
    orders,       \* rows of table order
    items,        \* rows of table order_item
    seq,          \* postgresql: last value of each table's id sequence
    today,        \* the server's calendar day
    resp,         \* the response of the last request handled atomically
    txn           \* per worker: the add_dish request it has in flight

vars == <<backend, restaurants, categories, dishes, orders, items, seq, today, resp, txn>>

----------------------------------------------------------------------------
(* Bounds of the model *)

MaxRestaurantId == 2
MaxCategoryId == 2
MaxDishId == 2
MaxOrderId == 2
MaxCart == 2
MaxDay == 1

MaxItemId == MaxOrderId * MaxCart

Names == {"", "Le Bistro", "Chez Ali"}
PublicIds == {"rest_aaaaaaaa", "rest_bbbbbbbb"}
CategoryNames == {"Plats"}
DishNames == {"Tajine"}
Workers == {"w1", "w2"}

\* "80 MAD", "1.004", "N.A.", "gratuit"
PriceInputs ==
    { <<"8", "0", " ", "M", "A", "D">>,
      <<"1", ".", "0", "0", "4">>,
      <<"N", ".", "A", ".">>,
      <<"g", "r", "a", "t", "u", "i", "t">> }

\* the JSON field table_number: absent (Python None) or a value
NoTable == [present |-> FALSE, val |-> ""]
Table5 == [present |-> TRUE, val |-> "5"]
TableInputs == {NoTable, Table5}

Carts == UNION {[1..n -> 1..MaxDishId] : n \in 0..MaxCart}

----------------------------------------------------------------------------
(* Generic helpers *)

Max(S) == IF S = {} THEN 0 ELSE CHOOSE x \in S : \A y \in S : y <= x

Ids(rows) == {r.id : r \in rows}

RECURSIVE SumOver(_, _)
\* sum of f[x] over the finite set S
SumOver(S, f) ==
    IF S = {} THEN 0
    ELSE LET x == CHOOSE y \in S : TRUE IN f[x] + SumOver(S \ {x}, f)

\* an autoincrement primary key: sqlite's rowid is max(rowid)+1 (an id freed by
\* a delete of the last row is given again), postgresql draws from a sequence
NewId(rows, s) == IF backend = "sqlite" THEN Max(Ids(rows)) + 1 ELSE s + 1

\* the sequence after n inserts were flushed (kept by a rollback too)
Bump(s, table, n) ==
    IF backend = "sqlite" THEN s ELSE [s EXCEPT ![table] = @ + n]

\* Flask: `return body, status` and `return body` (status 200)
Response(body, status) == [body |-> body, status |-> status]
ResponseDefault(body) == [body |-> body, status |-> 200]

----------------------------------------------------------------------------
(* Utilities of app.py *)

Digits == {"0", "1", "2", "3", "4", "5", "6", "7", "8", "9"}

DigitVal(c) ==
    CASE c = "0" -> 0 [] c = "1" -> 1 [] c = "2" -> 2 [] c = "3" -> 3
      [] c = "4" -> 4 [] c = "5" -> 5 [] c = "6" -> 6 [] c = "7" -> 7
      [] c = "8" -> 8 [] c = "9" -> 9

\* the character class [\d.]
NumChars == Digits \cup {"."}

\* re.search(r'[\d.]+', s): the leftmost longest run of digits and points
re_search(s) ==
    LET starts == {i \in 1..Len(s) : s[i] \in NumChars}
    IN IF starts = {} THEN [matched |-> FALSE, group |-> <<>>]
       ELSE LET i == CHOOSE k \in starts : \A m \in starts : k <= m
                j == CHOOSE k \in i..Len(s) :
                        /\ \A m \in i..k : s[m] \in NumChars
                        /\ (k = Len(s) \/ s[k + 1] \notin NumChars)
            IN [matched |-> TRUE, group |-> SubSeq(s, i, j)]

RECURSIVE DigitsValue(_)
DigitsValue(s) ==
    IF s = <<>> THEN 0
    ELSE 10 * DigitsValue(SubSeq(s, 1, Len(s) - 1)) + DigitVal(s[Len(s)])

\* float(text) of a text of digits and points: ValueError unless it holds a
\* digit and at most one point; the value in thousandths (three decimals kept)
pyfloat(text) ==
    LET points == {i \in 1..Len(text) : text[i] = "."}
        ndigits == Len(text) - Cardinality(points)
    IN IF Cardinality(points) > 1 \/ ndigits = 0
       THEN [ok |-> FALSE, val |-> 0]
       ELSE LET p == IF points = {} THEN Len(text) + 1 ELSE CHOOSE i \in points : TRUE
                whole == SubSeq(text, 1, p - 1)
                frac == SubSeq(text, p + 1, Len(text))
                frac3 == SubSeq(frac \o <<"0", "0", "0">>, 1, 3)
            IN [ok |-> TRUE, val |-> 1000 * DigitsValue(whole) + DigitsValue(frac3)]

extract_price_from_string(price_str) ==
    LET match == re_search(price_str)
    IN IF match.matched THEN pyfloat(match.group) ELSE [ok |-> TRUE, val |-> 0]

\* secrets.token_urlsafe: any token may be drawn, one already in use included
generate_public_id == PublicIds

\* round(x, 2) of a value in thousandths.  An exact half cent goes to the even
\* cent here; no sum of the prices drawn below ends in a half cent
round2(x) ==
    LET r == x % 10
        down == x - r
    IN IF r < 5 THEN down
       ELSE IF r > 5 THEN down + 10
       ELSE IF (down \div 10) % 2 = 0 THEN down ELSE down + 10

\* Restaurant.query.filter_by(public_id=...).first_or_404()
get_restaurant_by_public_id(public_id) ==
    {r \in restaurants : r.public_id = public_id}

----------------------------------------------------------------------------
(* Schema constraints of models.py *)

RestaurantInsertUnchecked(rows, row) == TRUE

\* restaurant.public_id and restaurant.name are both unique=True
RestaurantInsertAllowed(rows, row) ==
    \A r \in rows : r.public_id # row.public_id /\ r.name # row.name

CategoryInsertUnique(rows, row) ==
    \A c \in rows : ~(c.restaurant_id = row.restaurant_id /\ c.name = row.name)

\* category has a primary key and no other constraint: (restaurant_id, name)
\* may repeat
CategoryInsertAllowed(rows, row) == TRUE

----------------------------------------------------------------------------

\* a worker between requests, with the outcome of its last add_dish
Idle(status, category_id) ==
    [pc |-> "idle", status |-> status, category_id |-> category_id]

Init ==
    /\ backend \in {"sqlite", "postgresql"}
    /\ restaurants = {}
    /\ categories = {}
    /\ dishes = {}
    /\ orders = {}
    /\ items = {}
    /\ seq = [restaurant |-> 0, category |-> 0, dish |-> 0, order |-> 0, item |-> 0]
    /\ today = 0
    /\ resp = [op |-> "none", status |-> 0]
    /\ txn = [w \in Workers |-> Idle(0, 0)]

\* POST /api/register
register_restaurant(name, public_id) ==
    /\ public_id \in generate_public_id
    /\ IF name = ""
       THEN /\ resp' = [op |-> "register", status |-> 400, public_id |-> ""]
            /\ UNCHANGED <<restaurants, seq>>
       ELSE IF \E r \in restaurants : r.name = name
       THEN /\ resp' = [op |-> "register", status |-> 409, public_id |-> ""]
            /\ UNCHANGED <<restaurants, seq>>
       ELSE LET row == [id |-> NewId(restaurants, seq.restaurant),
                        public_id |-> public_id, name |-> name]
            IN /\ row.id <= MaxRestaurantId
               /\ seq' = Bump(seq, "restaurant", 1)
               /\ IF RestaurantInsertAllowed(restaurants, row)
                  THEN /\ restaurants' = restaurants \cup {row}
                       /\ resp' = [op |-> "register", status |-> 201,
                                   public_id |-> public_id]
                  ELSE \* IntegrityError at commit: the request ends in a 500
                       /\ restaurants' = restaurants
                       /\ resp' = [op |-> "register", status |-> 500,
                                   public_id |-> ""]
    /\ UNCHANGED <<backend, categories, dishes, orders, items, today, txn>>

CategoryLookupMiss(rows, restaurant_id, category_name) == {}

\* Category.query.filter_by(restaurant_id=..., name=...).first()
CategoryLookup(rows, restaurant_id, category_name) ==
    {c \in rows : c.restaurant_id = restaurant_id /\ c.name = category_name}

\* the category the request uses: the row found, or a new row with id `newid`
get_or_create_category(rows, restaurant_id, category_name, newid) ==
    LET found == CategoryLookup(rows, restaurant_id, category_name)
    IN IF found # {}
       THEN [category |-> CHOOSE c \in found : \A d \in found : c.id <= d.id,
             created |-> FALSE]
       ELSE [category |-> [id |-> newid, name |-> category_name,
                           restaurant_id |-> restaurant_id],
             created |-> TRUE]

\* the form of POST /api/menu/add/<public_id>
AddDishForms ==
    [name : DishNames, description : {"Plat maison"}, category : CategoryNames,
     price : PriceInputs]

\* the response of add_dish: {'id': dish.id} with 201, an error otherwise
AddDishResp(status, id) == [op |-> "add_dish", status |-> status, id |-> id]

\* POST /api/menu/add/<public_id>, the request running alone
add_dish(public_id, form) ==
    LET found == get_restaurant_by_public_id(public_id)
    IN
    /\ IF found = {}
       THEN /\ resp' = AddDishResp(404, 0)
            /\ UNCHANGED <<categories, dishes, seq>>
       ELSE IF form.name = "" \/ form.description = "" \/ form.category = ""
               \/ form.price = <<>>
       THEN /\ resp' = AddDishResp(400, 0)
            /\ UNCHANGED <<categories, dishes, seq>>
       ELSE LET restaurant == CHOOSE r \in found : TRUE
                price == extract_price_from_string(form.price)
            IN IF ~price.ok
               THEN \* ValueError caught: 'Prix invalide'
                    /\ resp' = AddDishResp(400, 0)
                    /\ UNCHANGED <<categories, dishes, seq>>
               ELSE LET goc == get_or_create_category(categories, restaurant.id,
                                   form.category, NewId(categories, seq.category))
                        dish == [id |-> NewId(dishes, seq.dish), name |-> form.name,
                                 price |-> price.val, category_id |-> goc.category.id,
                                 restaurant_id |-> restaurant.id]
                    IN /\ goc.category.id <= MaxCategoryId
                       /\ dish.id <= MaxDishId
                       /\ categories' = categories \cup {goc.category}
                       /\ dishes' = dishes \cup {dish}
                       /\ seq' = Bump(Bump(seq, "category", IF goc.created THEN 1 ELSE 0),
                                      "dish", 1)
                       /\ resp' = AddDishResp(201, dish.id)
    /\ UNCHANGED <<backend, restaurants, orders, items, today, txn>>

\* dish.id is the target of order_item.dish_id, a foreign key with no ON DELETE
\* rule and no ORM cascade (OrderItem.dish has no backref): postgresql refuses
\* the delete of a referenced dish, sqlite (foreign_keys pragma off, the
\* default) does not look
DishDeleteAllowed(dish_id) ==
    backend = "sqlite" \/ \A i \in items : i.dish_id # dish_id

\* DELETE /api/menu/<dish_id>
delete_dish(dish_id) ==
    /\ IF \A d \in dishes : d.id # dish_id
       THEN /\ resp' = [op |-> "delete_dish", status |-> 404, id |-> dish_id]
            /\ dishes' = dishes
       ELSE IF DishDeleteAllowed(dish_id)
       THEN /\ dishes' = {d \in dishes : d.id # dish_id}
            /\ resp' = [op |-> "delete_dish", status |-> 200, id |-> dish_id]
       ELSE \* IntegrityError at commit: the request ends in a 500
            /\ dishes' = dishes
            /\ resp' = [op |-> "delete_dish", status |-> 500, id |-> dish_id]
    /\ UNCHANGED <<backend, restaurants, categories, orders, items, seq, today, txn>>

\* str(x) of the JSON field: str(None) is the text "None"
pystr(table_number) == IF table_number.present THEN table_number.val ELSE "None"

session_rollback_keeps(rows, pending) == rows \cup pending

\* db.session.commit() and db.session.rollback() on the rows a request added
session_commit(rows, pending) == rows \cup pending
session_rollback(rows, pending) == rows

\* Dish.query.filter_by(id=..., restaurant_id=...).first()
DishOfRestaurant(dish_id, restaurant_id) ==
    {d \in dishes : d.id = dish_id /\ d.restaurant_id = restaurant_id}

\* jsonify(obj) and jsonify(obj, n): several arguments make a JSON array
jsonify1(obj) == [kind |-> "object", error |-> obj]
jsonify2(obj, n) == [kind |-> "array", error |-> obj, second |-> n]

CreateOrderResp(r, order_id) ==
    [op |-> "create_order", status |-> r.status, body |-> r.body,
     order_id |-> order_id]

\* POST /api/order/<public_id>
create_order_client(public_id, table_number, cart) ==
    LET found == get_restaurant_by_public_id(public_id)
    IN
    /\ IF found = {}
       THEN /\ resp' = CreateOrderResp(Response(jsonify1(0), 404), 0)
            /\ UNCHANGED <<orders, items, seq>>
       ELSE IF cart = <<>>
       THEN /\ resp' = CreateOrderResp(Response(jsonify1(0), 400), 0)
            /\ UNCHANGED <<orders, items, seq>>
       ELSE LET restaurant == CHOOSE r \in found : TRUE
                order == [id |-> NewId(orders, seq.order),
                          restaurant_id |-> restaurant.id,
                          table_number |-> [present |-> TRUE, val |-> pystr(table_number)],
                          status |-> "pending", created_at |-> today]
                bad == {k \in 1..Len(cart) :
                            DishOfRestaurant(cart[k], restaurant.id) = {}}
                \* the lines handled before the loop ends or returns
                done == IF bad = {} THEN Len(cart)
                        ELSE (CHOOSE k \in bad : \A m \in bad : k <= m) - 1
                first == NewId(items, seq.item)
                ois == {[id |-> first + k - 1, order_id |-> order.id,
                         dish_id |-> cart[k], quantity |-> 1] : k \in 1..done}
            IN /\ order.id <= MaxOrderId
               /\ first + Len(cart) - 1 <= MaxItemId
               /\ seq' = Bump(Bump(seq, "order", 1), "item", done)
               /\ IF bad # {}
                  THEN /\ orders' = session_rollback(orders, {order})
                       /\ items' = session_rollback(items, ois)
                       /\ resp' = CreateOrderResp(
                                      ResponseDefault(jsonify2(cart[done + 1], 400)), 0)
                  ELSE /\ orders' = session_commit(orders, {order})
                       /\ items' = session_commit(items, ois)
                       /\ resp' = CreateOrderResp(Response(jsonify1(0), 201),
                                                  order.id)
    /\ UNCHANGED <<backend, restaurants, categories, dishes, today, txn>>

ConfirmedStatusCompleted == "completed"

\* the status confirm_order writes
ConfirmedStatus == "validated"

\* POST /api/order/<order_id>/confirm
confirm_order(order_id) ==
    /\ IF \A o \in orders : o.id # order_id
       THEN /\ resp' = [op |-> "confirm_order", status |-> 404, id |-> order_id]
            /\ orders' = orders
       ELSE /\ orders' = {IF o.id = order_id THEN [o EXCEPT !.status = ConfirmedStatus]
                          ELSE o : o \in orders}
            /\ resp' = [op |-> "confirm_order", status |-> 200, id |-> order_id]
    /\ UNCHANGED <<backend, restaurants, categories, dishes, items, seq, today, txn>>

\* DELETE /api/order/<order_id>: Order.items cascades 'all, delete-orphan'
delete_order(order_id) ==
    /\ IF \A o \in orders : o.id # order_id
       THEN /\ resp' = [op |-> "delete_order", status |-> 404, id |-> order_id]
            /\ UNCHANGED <<orders, items>>
       ELSE /\ orders' = {o \in orders : o.id # order_id}
            /\ items' = {i \in items : i.order_id # order_id}
            /\ resp' = [op |-> "delete_order", status |-> 200, id |-> order_id]
    /\ UNCHANGED <<backend, restaurants, categories, dishes, seq, today, txn>>

\* order.items, in id order
OrderItems(order) ==
    LET its == {i \in items : i.order_id = order.id}
    IN CHOOSE s \in [1..Cardinality(its) -> its] :
           \A a, b \in 1..Cardinality(its) : a < b => s[a].id < s[b].id

\* item.dish: the row order_item.dish_id names, None when there is none
ItemDish(item) == {d \in dishes : d.id = item.dish_id}

\* whether every item.dish of these orders is a row (else item.dish.price raises)
DishesResolve(os) ==
    \A o \in os : \A i \in items : i.order_id = o.id => ItemDish(i) # {}

LinePrice(item) == (CHOOSE d \in ItemDish(item) : TRUE).price * item.quantity

RECURSIVE SeqSum(_)
SeqSum(s) == IF s = <<>> THEN 0 ELSE s[1] + SeqSum(Tail(s))

\* sum(item.dish.price * item.quantity for item in order.items)
OrderTotal(order) ==
    LET its == OrderItems(order)
    IN SeqSum([k \in 1..Len(its) |-> LinePrice(its[k])])

\* the placeholder of the staff display (U+2014)
EmDash == "em-dash"

\* order.table_number or EmDash: None and the empty text are falsy
TableLabel(table_number) ==
    IF ~table_number.present \/ table_number.val = "" THEN EmDash
    ELSE table_number.val

format_orders_for_staff(os) ==
    {[id |-> o.id,
      table_number |-> TableLabel(o.table_number),
      items |-> LET its == OrderItems(o)
                IN [k \in 1..Len(its) |->
                       [name |-> (CHOOSE d \in ItemDish(its[k]) : TRUE).name,
                        price |-> (CHOOSE d \in ItemDish(its[k]) : TRUE).price]],
      total_price |-> round2(OrderTotal(o))] : o \in os}

ConfirmedStatuses == {"validated", "completed"}

ListResp(op, os) ==
    IF DishesResolve(os)
    THEN [op |-> op, status |-> 200,
          body |-> format_orders_for_staff(os)]
    ELSE \* AttributeError on item.dish.price: the request ends in a 500
         [op |-> op, status |-> 500, body |-> {}]

\* GET /api/orders/pending/<public_id>
get_pending_orders(public_id) ==
    LET found == get_restaurant_by_public_id(public_id)
    IN
    /\ resp' = IF found = {}
               THEN [op |-> "pending_orders", status |-> 404,
                     body |-> {}]
               ELSE ListResp("pending_orders",
                             {o \in orders : /\ o.restaurant_id \in Ids(found)
                                             /\ o.status = "pending"})
    /\ UNCHANGED <<backend, restaurants, categories, dishes, orders, items, seq, today, txn>>

\* GET /api/orders/confirmed/<public_id>
get_confirmed_orders(public_id) ==
    LET found == get_restaurant_by_public_id(public_id)
    IN
    /\ resp' = IF found = {}
               THEN [op |-> "confirmed_orders", status |-> 404,
                     body |-> {}]
               ELSE ListResp("confirmed_orders",
                             {o \in orders : /\ o.restaurant_id \in Ids(found)
                                             /\ o.status \in ConfirmedStatuses})
    /\ UNCHANGED <<backend, restaurants, categories, dishes, orders, items, seq, today, txn>>

StatsOrdersAnyStatus(restaurant_id) ==
    {o \in orders : o.restaurant_id = restaurant_id /\ o.created_at = today}

\* the orders get_stats_today selects
StatsOrders(restaurant_id) ==
    {o \in orders : /\ o.restaurant_id = restaurant_id
                    /\ o.created_at = today
                    /\ o.status \in ConfirmedStatuses}

\* GET /api/stats/today/<public_id>
get_stats_today(public_id) ==
    LET found == get_restaurant_by_public_id(public_id)
    IN
    /\ resp' =
         IF found = {}
         THEN [op |-> "stats_today", status |-> 404,
               total_sales |-> 0, orders_count |-> 0]
         ELSE LET os == StatsOrders((CHOOSE r \in found : TRUE).id)
              IN IF DishesResolve(os)
                 THEN [op |-> "stats_today", status |-> 200,
                       total_sales |-> round2(SumOver(os, [o \in os |-> OrderTotal(o)])),
                       orders_count |-> Cardinality(os)]
                 ELSE [op |-> "stats_today", status |-> 500,
                       total_sales |-> 0, orders_count |-> 0]
    /\ UNCHANGED <<backend, restaurants, categories, dishes, orders, items, seq, today, txn>>

\* midnight: date.today() and the date of datetime.utcnow move on together
\* (a server whose local time is UTC)
NextDay ==
    /\ today < MaxDay
    /\ today' = today + 1
    /\ UNCHANGED <<backend, restaurants, categories, dishes, orders, items, seq, resp, txn>>

----------------------------------------------------------------------------
(* add_dish as it runs beside other requests: each worker has a session and  *)
(* a transaction of its own, and sees the rows committed when it reads.      *)

\* lines 168-183 up to the SELECT of get_or_create_category
AddDishBegin(w, public_id, form) ==
    LET found == get_restaurant_by_public_id(public_id)
    IN
    /\ txn[w].pc = "idle"
    /\ txn' = [txn EXCEPT ![w] =
          IF found = {} THEN Idle(404, 0)
          ELSE IF form.name = "" \/ form.description = "" \/ form.category = ""
                  \/ form.price = <<>>
                  \/ ~extract_price_from_string(form.price).ok
          THEN Idle(400, 0)
          ELSE LET restaurant == CHOOSE r \in found : TRUE
               IN [pc |-> "looked_up", status |-> 0,
                   restaurant_id |-> restaurant.id, form |-> form,
                   seen |-> CategoryLookup(categories, restaurant.id, form.category)]]
    /\ UNCHANGED <<backend, restaurants, categories, dishes, orders, items, seq, today,
                   resp>>

\* the INSERTs flushed at lines 46 and 189.  sqlite has one writer at a time:
\* the INSERT waits for the writer before it to commit
AddDishFlush(w) ==
    /\ txn[w].pc = "looked_up"
    /\ backend = "sqlite" => \A v \in Workers : txn[v].pc # "flushed"
    /\ LET t == txn[w]
           goc == get_or_create_category(t.seen, t.restaurant_id, t.form.category,
                                         NewId(categories, seq.category))
           dish == [id |-> NewId(dishes, seq.dish), name |-> t.form.name,
                    price |-> extract_price_from_string(t.form.price).val,
                    category_id |-> goc.category.id,
                    restaurant_id |-> t.restaurant_id]
       IN /\ goc.category.id <= MaxCategoryId
          /\ dish.id <= MaxDishId
          /\ seq' = Bump(Bump(seq, "category", IF goc.created THEN 1 ELSE 0), "dish", 1)
          /\ txn' = [txn EXCEPT ![w] =
                        [pc |-> "flushed", status |-> 0, category |-> goc.category,
                         created |-> goc.created, dish |-> dish]]
    /\ UNCHANGED <<backend, restaurants, categories, dishes, orders, items, today, resp>>

\* db.session.commit() at line 199 and the 201
AddDishCommit(w) ==
    /\ txn[w].pc = "flushed"
    /\ LET t == txn[w]
       IN IF t.created => CategoryInsertAllowed(categories, t.category)
          THEN /\ categories' = session_commit(categories, {t.category})
               /\ dishes' = session_commit(dishes, {t.dish})
               /\ txn' = [txn EXCEPT ![w] = Idle(201, t.category.id)]
          ELSE \* IntegrityError: the request ends in a 500
               /\ UNCHANGED <<categories, dishes>>
               /\ txn' = [txn EXCEPT ![w] = Idle(500, 0)]
    /\ UNCHANGED <<backend, restaurants, orders, items, seq, today, resp>>

----------------------------------------------------------------------------
(* Specifications.  Spec offers every handler with every input; the others  *)
(* run the same handlers from the same empty store and differ in the        *)
(* handlers offered and in the inputs drawn, which keeps each one finite    *)
(* enough to explore in full.                                               *)

RealNames == Names \ {""}
FormsPriced(prices) == {f \in AddDishForms : f.price \in prices}
Price80 == <<"8", "0", " ", "M", "A", "D">>
Price1004 == <<"1", ".", "0", "0", "4">>

\* every handler, with every input
Next ==
    \/ \E name \in Names, public_id \in PublicIds : register_restaurant(name, public_id)
    \/ \E public_id \in PublicIds, form \in AddDishForms : add_dish(public_id, form)
    \/ \E dish_id \in 1..MaxDishId : delete_dish(dish_id)
    \/ \E public_id \in PublicIds, table_number \in TableInputs, cart \in Carts :
           create_order_client(public_id, table_number, cart)
    \/ \E order_id \in 1..MaxOrderId : confirm_order(order_id)
    \/ \E order_id \in 1..MaxOrderId : delete_order(order_id)
    \/ \E public_id \in PublicIds : get_pending_orders(public_id)
    \/ \E public_id \in PublicIds : get_confirmed_orders(public_id)
    \/ \E public_id \in PublicIds : get_stats_today(public_id)
    \/ NextDay
    \/ \E w \in Workers, public_id \in PublicIds, form \in AddDishForms :
           AddDishBegin(w, public_id, form)
    \/ \E w \in Workers : AddDishFlush(w)
    \/ \E w \in Workers : AddDishCommit(w)

Spec == Init /\ [][Next]_vars

\* registrations whose tokens do not collide
TokenDrawn(name) == IF name = "Le Bistro" THEN "rest_aaaaaaaa" ELSE "rest_bbbbbbbb"

\* the catalog: registration and the menu
NextCatalog ==
    \/ \E name \in Names, public_id \in PublicIds : register_restaurant(name, public_id)
    \/ \E public_id \in PublicIds, form \in AddDishForms : add_dish(public_id, form)
    \/ \E dish_id \in 1..MaxDishId : delete_dish(dish_id)

SpecCatalog == Init /\ [][NextCatalog]_vars

\* the order lifecycle over a menu of one price
NextOrders ==
    \/ \E name \in RealNames : register_restaurant(name, TokenDrawn(name))
    \/ \E public_id \in PublicIds, form \in FormsPriced({Price80}) :
           add_dish(public_id, form)
    \/ \E dish_id \in 1..MaxDishId : delete_dish(dish_id)
    \/ \E public_id \in PublicIds, cart \in Carts :
           create_order_client(public_id, Table5, cart)
    \/ \E order_id \in 1..MaxOrderId : confirm_order(order_id)
    \/ \E order_id \in 1..MaxOrderId : delete_order(order_id)

SpecOrders == Init /\ [][NextOrders]_vars

\* the staff's lists of orders placed with and without a table number
NextStaff ==
    \/ \E name \in RealNames : register_restaurant(name, TokenDrawn(name))
    \/ \E public_id \in PublicIds, form \in FormsPriced({Price80}) :
           add_dish(public_id, form)
    \/ \E public_id \in PublicIds, table_number \in TableInputs, cart \in Carts :
           create_order_client(public_id, table_number, cart)
    \/ \E order_id \in 1..MaxOrderId : confirm_order(order_id)
    \/ \E public_id \in PublicIds : get_pending_orders(public_id)
    \/ \E public_id \in PublicIds : get_confirmed_orders(public_id)

SpecStaff == Init /\ [][NextStaff]_vars

\* the daily report over orders placed, confirmed and deleted on several days
NextSales ==
    \/ \E name \in RealNames : register_restaurant(name, TokenDrawn(name))
    \/ \E public_id \in PublicIds, form \in FormsPriced({Price80, Price1004}) :
           add_dish(public_id, form)
    \/ \E public_id \in PublicIds, cart \in Carts :
           create_order_client(public_id, Table5, cart)
    \/ \E order_id \in 1..MaxOrderId : confirm_order(order_id)
    \/ \E order_id \in 1..MaxOrderId : delete_order(order_id)
    \/ \E public_id \in PublicIds : get_stats_today(public_id)
    \/ NextDay

SpecSales == Init /\ [][NextSales]_vars

\* concurrent Add Dish requests
NextRace ==
    \/ \E name \in RealNames : register_restaurant(name, TokenDrawn(name))
    \/ \E w \in Workers, public_id \in PublicIds, form \in AddDishForms :
           AddDishBegin(w, public_id, form)
    \/ \E w \in Workers : AddDishFlush(w)
    \/ \E w \in Workers : AddDishCommit(w)

SpecRace == Init /\ [][NextRace]_vars

----------------------------------------------------------------------------
(* Properties of the catalog, under SpecCatalog *)

\* C3: no two restaurants share a public_id or a name, and a registration
\* under a name already taken answers 409 and leaves the restaurants as they were
RegistrationUnique ==
    [][/\ \A r1, r2 \in restaurants' :
            (r1.public_id = r2.public_id \/ r1.name = r2.name) => r1 = r2
       /\ \A name \in Names, public_id \in PublicIds :
            (/\ resp'.op = "register"
             /\ \E r \in restaurants : r.name = name
             /\ register_restaurant(name, public_id))
            => (resp'.status = 409 /\ restaurants' = restaurants)]_vars

\* two restaurants are registered and a third call under a taken name got 409
RegistrationWitness ==
    /\ Cardinality(restaurants) = 2
    /\ resp.op = "register"
    /\ resp.status = 409

\* C4: an Add Dish that names a category its restaurant already has adds no
\* Category row and files the dish under the row that was there; the dish's
\* category always is a row of that restaurant and name; and no two Category
\* rows share (restaurant_id, name)
CategoryIdempotent ==
    [][/\ \A c1, c2 \in categories' :
            (c1.restaurant_id = c2.restaurant_id /\ c1.name = c2.name) => c1 = c2
       /\ \A public_id \in PublicIds, form \in AddDishForms :
            (/\ resp'.op = "add_dish"
             /\ resp'.status = 201
             /\ add_dish(public_id, form)) =>
            \E r \in restaurants, d \in dishes' :
               /\ r.public_id = public_id
               /\ d.id = resp'.id
               /\ \E c \in categories' :
                     /\ c.id = d.category_id
                     /\ c.name = form.category
                     /\ c.restaurant_id = r.id
               /\ LET before == {c \in categories :
                                   c.restaurant_id = r.id /\ c.name = form.category}
                  IN before # {} =>
                        /\ categories' = categories
                        /\ d.category_id \in Ids(before)]_vars

\* a second Add Dish of one restaurant was filed under the row of the first
CategoryWitness ==
    /\ \E d1, d2 \in dishes : d1.id # d2.id /\ d1.category_id = d2.category_id
    /\ resp.op = "add_dish"
    /\ resp.status = 201

\* the price text holds no digit character
NoDigit(price_str) == \A k \in 1..Len(price_str) : price_str[k] \notin Digits

\* C8: a price text without a digit parses to 0.0 and Add Dish stores the dish
\* with price 0; "80 MAD" parses to 80
PriceLeniency ==
    [][\A public_id \in PublicIds, form \in AddDishForms :
          (/\ resp'.op = "add_dish"
           /\ get_restaurant_by_public_id(public_id) # {}
           /\ add_dish(public_id, form))
          => /\ NoDigit(form.price) =>
                  /\ extract_price_from_string(form.price) = [ok |-> TRUE, val |-> 0]
                  /\ resp'.status = 201
                  /\ \E d \in dishes' : d.id = resp'.id /\ d.price = 0
             /\ form.price = Price80 =>
                  \E d \in dishes' : d.id = resp'.id /\ d.price = 80000]_vars

----------------------------------------------------------------------------
(* Properties of the order lifecycle, under SpecOrders *)

\* every line of the cart names a dish of the restaurant
CartResolves(cart, restaurant_id) ==
    \A k \in 1..Len(cart) :
        \E d \in dishes : d.id = cart[k] /\ d.restaurant_id = restaurant_id

\* C1: a Create Order with a non-empty cart of which some line does not name
\* a dish of the restaurant leaves the Order and OrderItem rows as they were;
\* one whose lines all resolve adds exactly one Order and one OrderItem per line
OrderAtomic ==
    [][\A public_id \in PublicIds, table_number \in TableInputs, cart \in Carts :
          \A r \in restaurants :
             (/\ resp'.op = "create_order"
              /\ r.public_id = public_id
              /\ create_order_client(public_id, table_number, cart)
              /\ cart # <<>>)
             => IF CartResolves(cart, r.id)
                THEN \E o \in orders' :
                        /\ o \notin orders
                        /\ orders' = orders \cup {o}
                        /\ items \subseteq items'
                        /\ Cardinality(items' \ items) = Len(cart)
                        /\ \A i \in items' \ items : i.order_id = o.id
                        /\ \A k \in 1..Len(cart) :
                              Cardinality({i \in items' \ items : i.dish_id = cart[k]})
                                 = Cardinality({m \in 1..Len(cart) : cart[m] = cart[k]})
                ELSE orders' = orders /\ items' = items]_vars

\* a cart was refused while an earlier order and its items are in the store
OrderAtomicWitness ==
    /\ resp.op = "create_order"
    /\ resp.body.kind = "array"
    /\ orders # {}
    /\ items # {}
    /\ dishes # {}

\* C2: every order is pending or validated; an order that appears is pending;
\* Confirm Order on an order of the store answers 200 and leaves it validated;
\* and no step takes a validated order back
StatusMonotonic ==
    [][/\ \A o \in orders' : o.status \in {"pending", "validated"}
       /\ \A o \in orders' : (\A p \in orders : p.id # o.id) => o.status = "pending"
       /\ \A p \in orders, o \in orders' :
             (p.id = o.id /\ p.status = "validated") => o.status = "validated"
       /\ \A order_id \in 1..MaxOrderId :
             (/\ resp'.op = "confirm_order"
              /\ confirm_order(order_id)
              /\ \E p \in orders : p.id = order_id)
             => /\ resp'.status = 200
                /\ \E o \in orders' : o.id = order_id /\ o.status = "validated"]_vars

\* a confirmation answered 200 and two orders are validated
StatusWitness ==
    /\ resp.op = "confirm_order"
    /\ resp.status = 200
    /\ Cardinality({o \in orders : o.status = "validated"}) = 2

\* C6: a Create Order that meets a line naming no dish of the restaurant
\* answers with HTTP status 400 and names the dish id, the order being discarded
DishNotFoundIs400 ==
    [][\A public_id \in PublicIds, table_number \in TableInputs, cart \in Carts :
          \A r \in restaurants :
             (/\ resp'.op = "create_order"
              /\ r.public_id = public_id
              /\ create_order_client(public_id, table_number, cart)
              /\ cart # <<>>
              /\ ~CartResolves(cart, r.id))
             => /\ resp'.status = 400
                /\ \E k \in 1..Len(cart) : resp'.body.error = cart[k]
                /\ orders' = orders
                /\ items' = items]_vars

\* C10: every OrderItem names a dish of the store, and that dish belongs to
\* the restaurant of the item's order
ItemsReferToDishes ==
    \A i \in items :
        \E d \in dishes, o \in orders :
            /\ d.id = i.dish_id
            /\ o.id = i.order_id
            /\ d.restaurant_id = o.restaurant_id

----------------------------------------------------------------------------
(* Property of the staff display, under SpecStaff *)

\* C7: the staff display of an order just created shows the em-dash when no
\* table number was given and the number when one was
TableLabelShown ==
    [][\A public_id \in PublicIds, table_number \in TableInputs, cart \in Carts :
          (/\ resp'.op = "create_order"
           /\ resp'.status = 201
           /\ create_order_client(public_id, table_number, cart))
          => \A o \in orders' :
                o.id = resp'.order_id =>
                \A e \in format_orders_for_staff({o})' :
                    e.table_number =
                        IF table_number.present THEN table_number.val ELSE EmDash]_vars

----------------------------------------------------------------------------
(* Properties of the daily report, under SpecSales *)

\* the items that count for a restaurant today
SalesItems(restaurant_id) ==
    {i \in items :
        \E o \in orders :
            /\ o.id = i.order_id
            /\ o.restaurant_id = restaurant_id
            /\ o.status \in {"validated", "completed"}
            /\ o.created_at = today}

\* the sum of dish price x quantity over those items, in thousandths
SalesSum(restaurant_id) ==
    LET its == SalesItems(restaurant_id)
    IN SumOver(its, [i \in its |->
           (CHOOSE d \in dishes : d.id = i.dish_id).price * i.quantity])

SalesCount(restaurant_id) ==
    Cardinality({o \in orders :
        /\ o.restaurant_id = restaurant_id
        /\ o.status \in {"validated", "completed"}
        /\ o.created_at = today})

----------------------------------------------------------------------------
(* Properties of concurrent Add Dish requests, under SpecRace *)

\* C9: no Add Dish request is refused by the store: each one that passes
\* validation answers 201 with its Category row persisted, also when another
\* request committed a row of the same (restaurant_id, name) in between
NoInsertRefused ==
    \A w \in Workers :
        txn[w].pc = "idle" =>
            /\ txn[w].status \in {0, 201, 400, 404}
            /\ txn[w].status = 201 =>
                  \E c \in categories : c.id = txn[w].category_id

\* two Category rows of one restaurant carry one name, both requests done
DuplicateCategory ==
    /\ \E c1, c2 \in categories :
          /\ c1.id # c2.id
          /\ c1.restaurant_id = c2.restaurant_id
          /\ c1.name = c2.name
    /\ \A w \in Workers : txn[w].pc = "idle" /\ txn[w].status = 201

====
